---- MODULE Spec2Model ----
(***************************************************************************)
(* A model of skiplist::SkipList<_Key, _Value, _MAX_LEVEL, _Comp>          *)
(* (src/skip_list.h) for integral key and value types and the              *)
(* DefaultComparator.  The heap is a finite pool of node addresses; every  *)
(* node has a key, a value, a forward-link array of `height' slots and is  *)
(* either live or free.  Every public method is one action, except         *)
(* clear(), whose while loop takes one step per iteration.                 *)
(***************************************************************************)
EXTENDS Integers, Sequences, FiniteSets, TLC

\* ------------------------------------------------------------------ bounds
\* Number of node addresses the allocator can hand out (besides the head).
MaxNodes == 3
\* skiplist::MAX_LEVEL (32 in the source), scaled down.
MAX_LEVEL == 2
\* Largest key of the (scaled) integral key domain.
KeyMax == 0
\* Number of values of the (scaled) integral value domain above the two
\* values the code singles out, the minimum and -1.
ExtraValues == 0

\* ------------------------------------------------------- program constants
\* (std::numeric_limits<KeyType>::min)() and <ValueType>::min, scaled.
KeyMin == -1
ValMin == -2
\* remove()'s initial `ValueType value = -1'.
RemoveDefault == -1
\* nullptr; the Level arrays are zeroed by memset.
NULL == 0

Keys == KeyMin..KeyMax
Values == ValMin..(RemoveDefault + ExtraValues)
Nodes == 1..MaxNodes
\* The address of the head sentinel, distinct from every other node.
head_ == MaxNodes + 1
Addrs == Nodes \cup {head_}
Levels == 0..(MAX_LEVEL - 1)
\* The low MAX_LEVEL bits of the word drawn from std::mt19937_64.
RandomWords == 0..(2^MAX_LEVEL - 1)

VARIABLES
    key,         \* Node::key of every address
    value,       \* Node::value
    height,      \* size of the array Node::level (0 for a free address)
    next,        \* Node::level[i].next
    live,        \* addresses of the nodes allocated by createNode and not deleted
    maxLevel_,   \* SkipList::maxLevel_
    tplMaxLevel, \* the template argument _MAX_LEVEL of this instantiation
    pc,          \* "idle", "clear" (inside clear()'s loop) or "crashed"
    ub,          \* an operation has left the bounds of an array or used a deleted node
    lastOp,      \* the last call: method, arguments, chosen level, returned value
    freedLog,    \* the addresses deleted by the last call, in order
    preLive,     \* the live nodes when the last clear() was called
    insOnly,     \* so far only inserts of pairwise distinct keys (and searches)
    inserted,    \* the pairs inserted while insOnly held
    insertsOnly, \* so far only inserts, of any keys (and searches)
    maxChosen    \* the largest height randomLevel has returned to an insert

vars == <<key, value, height, next, live, maxLevel_, tplMaxLevel, pc, ub,
          lastOp, freedLog, preLive, insOnly, inserted, insertsOnly, maxChosen>>

\* The node store as one value, handed through the loops of the methods.
Heap ==
    [key |-> key, value |-> value, height |-> height, next |-> next, live |-> live]

\* ---------------------------------------------------------------- helpers
\* DefaultComparator::operator()
comparator(a, b) ==
    IF a = b THEN 0 ELSE IF a < b THEN -1 ELSE 1

\* Whether p->level[i] is inside a live node's array.
ValidSlot(h, p, i) ==
    /\ p = head_ \/ p \in h.live
    /\ i >= 0
    /\ i < h.height[p]

\* Whether reading p->level[i].next and, when it is not null, that node's
\* fields stays inside live memory.
ValidRead(h, p, i) ==
    /\ ValidSlot(h, p, i)
    /\ h.next[p][i] # NULL => h.next[p][i] \in h.live

\* Node::Node: the key, the value and a zeroed array of `level' links.
createNode(h, node, level, k, v) ==
    [h EXCEPT !.key[node] = k,
              !.value[node] = v,
              !.height[node] = level,
              !.next[node] = [i \in Levels |-> NULL],
              !.live = h.live \cup {node}]

\* delete node (Node::~Node frees the array); delete nullptr does nothing.
deleteNode(h, node) ==
    IF node = NULL THEN h
    ELSE [h EXCEPT !.key[node] = KeyMin,
                   !.value[node] = ValMin,
                   !.height[node] = 0,
                   !.next[node] = [i \in Levels |-> NULL],
                   !.live = h.live \ {node}]

\* randomLevel: the index of the first zero bit of rd below `level', plus one.
RECURSIVE randomLevelFrom(_, _, _)
randomLevelFrom(rd, level, i) ==
    IF i >= level THEN level
    ELSE IF (rd \div (2^i)) % 2 = 0 THEN i + 1
    ELSE randomLevelFrom(rd, level, i + 1)

\* randomLevel() as insert calls it: the default argument is MAX_LEVEL.
randomLevel(rd) ==
    randomLevelFrom(rd, MAX_LEVEL, 0)

\* ----------------------------------------------------------------- insert
\* A variant of insertFind with the sign of the comparisons inverted.
RECURSIVE insertFindInverted(_, _, _, _, _)
insertFindInverted(h, p, i, k, v) ==
    LET n == h.next[p][i]
        bad == ~ValidRead(h, p, i)
    IN  IF /\ n # NULL
           /\ \/ comparator(h.key[n], k) > 0
              \/ /\ comparator(h.key[n], k) = 0
                 /\ comparator(h.value[n], v) > 0
        THEN LET r == insertFindInverted(h, n, i, k, v)
             IN  [p |-> r.p, ub |-> bad \/ r.ub]
        ELSE [p |-> p, ub |-> bad]

\* A variant of insertFind that compares the keys alone.
RECURSIVE insertFindKeyOnly(_, _, _, _, _)
insertFindKeyOnly(h, p, i, k, v) ==
    LET n == h.next[p][i]
        bad == ~ValidRead(h, p, i)
    IN  IF n # NULL /\ comparator(h.key[n], k) < 0
        THEN LET r == insertFindKeyOnly(h, n, i, k, v)
             IN  [p |-> r.p, ub |-> bad \/ r.ub]
        ELSE [p |-> p, ub |-> bad]

\* A variant of insertFind that also advances past pairs equal to (k, v).
RECURSIVE insertFindPastEqual(_, _, _, _, _)
insertFindPastEqual(h, p, i, k, v) ==
    LET n == h.next[p][i]
        bad == ~ValidRead(h, p, i)
    IN  IF /\ n # NULL
           /\ \/ comparator(h.key[n], k) < 0
              \/ /\ comparator(h.key[n], k) = 0
                 /\ comparator(h.value[n], v) <= 0
        THEN LET r == insertFindPastEqual(h, n, i, k, v)
             IN  [p |-> r.p, ub |-> bad \/ r.ub]
        ELSE [p |-> p, ub |-> bad]

\* The while loop of insert: advance while the next pair is below (k, v).
RECURSIVE insertFind(_, _, _, _, _)
insertFind(h, p, i, k, v) ==
    LET n == h.next[p][i]
        bad == ~ValidRead(h, p, i)
    IN  IF /\ n # NULL
           /\ \/ comparator(h.key[n], k) < 0
              \/ /\ comparator(h.key[n], k) = 0
                 /\ comparator(h.value[n], v) < 0
        THEN LET r == insertFind(h, n, i, k, v)
             IN  [p |-> r.p, ub |-> bad \/ r.ub]
        ELSE [p |-> p, ub |-> bad]

\* The for loop of insert, from level i down to 0.
RECURSIVE insertLoop(_, _, _, _, _, _, _)
insertLoop(h, p, i, node, level, k, v) ==
    IF i < 0 THEN [h |-> h, ub |-> FALSE]
    ELSE LET f == insertFind(h, p, i, k, v)
             h2 == IF i < level
                   THEN [h EXCEPT !.next[node][i] = h.next[f.p][i],
                                  !.next[f.p][i] = node]
                   ELSE h
             r == insertLoop(h2, f.p, i - 1, node, level, k, v)
         IN  [h |-> r.h, ub |-> f.ub \/ r.ub]

\* A variant of insertCall that assigns the chosen height to the tracked
\* maximum level whatever its value.
insertCallAssign(h, ml, node, k, v, rd) ==
    LET level == randomLevel(rd)
        ml2 == level
        r == insertLoop(createNode(h, node, level, k, v), head_, ml2 - 1,
                        node, level, k, v)
    IN  [h |-> r.h, maxLevel |-> ml2, ret |-> 0, ub |-> r.ub,
         freed |-> <<>>, level |-> level]

\* insert(key, value) with the random word rd and the address `node'
\* returned by the allocator.
insertCall(h, ml, node, k, v, rd) ==
    LET level == randomLevel(rd)
        ml2 == IF ml < level THEN level ELSE ml
        r == insertLoop(createNode(h, node, level, k, v), head_, ml2 - 1,
                        node, level, k, v)
    IN  [h |-> r.h, maxLevel |-> ml2, ret |-> 0, ub |-> r.ub,
         freed |-> <<>>, level |-> level]

\* ------------------------------------------------------------- searchNode
\* A variant of searchFind that advances only while the next key is < k.
RECURSIVE searchFindStrict(_, _, _, _)
searchFindStrict(h, p, i, k) ==
    LET n == h.next[p][i]
        bad == ~ValidRead(h, p, i)
    IN  IF n # NULL /\ comparator(h.key[n], k) < 0
        THEN LET r == searchFindStrict(h, n, i, k)
             IN  [p |-> r.p, ub |-> bad \/ r.ub]
        ELSE [p |-> p, ub |-> bad]

\* The while loop of searchNode: advance while the next key is <= k.
RECURSIVE searchFind(_, _, _, _)
searchFind(h, p, i, k) ==
    LET n == h.next[p][i]
        bad == ~ValidRead(h, p, i)
    IN  IF n # NULL /\ comparator(h.key[n], k) <= 0
        THEN LET r == searchFind(h, n, i, k)
             IN  [p |-> r.p, ub |-> bad \/ r.ub]
        ELSE [p |-> p, ub |-> bad]

\* The for loop of searchNode, from level i down to 0.
RECURSIVE searchLoop(_, _, _, _)
searchLoop(h, p, i, k) ==
    IF i < 0 THEN [p |-> p, ub |-> FALSE]
    ELSE LET f == searchFind(h, p, i, k)
             r == searchLoop(h, f.p, i - 1, k)
         IN  [p |-> r.p, ub |-> f.ub \/ r.ub]

\* searchNode(key): the node found, or NULL.
searchNode(h, ml, k) ==
    LET r == searchLoop(h, head_, ml - 1, k)
    IN  [node |-> IF h.key[r.p] = k THEN r.p ELSE NULL, ub |-> r.ub]

\* search(key)
searchCall(h, ml, k) ==
    LET s == searchNode(h, ml, k)
    IN  [h |-> h, maxLevel |-> ml,
         ret |-> IF s.node # NULL THEN h.value[s.node] ELSE ValMin,
         ub |-> s.ub, freed |-> <<>>, level |-> 0]

\* update(key, value)
updateCall(h, ml, k, v) ==
    LET s == searchNode(h, ml, k)
    IN  IF s.node # NULL
        THEN [h |-> [h EXCEPT !.value[s.node] = v], maxLevel |-> ml,
              ret |-> 0, ub |-> s.ub, freed |-> <<>>, level |-> 0]
        ELSE [h |-> h, maxLevel |-> ml, ret |-> 1, ub |-> s.ub,
              freed |-> <<>>, level |-> 0]

\* ----------------------------------------------------------------- remove
\* The while loop of remove: advance while the next key is below k.
RECURSIVE removeFind(_, _, _, _)
removeFind(h, p, i, k) ==
    LET n == h.next[p][i]
        bad == ~ValidRead(h, p, i)
    IN  IF n # NULL /\ comparator(h.key[n], k) < 0
        THEN LET r == removeFind(h, n, i, k)
             IN  [p |-> r.p, ub |-> bad \/ r.ub]
        ELSE [p |-> p, ub |-> bad]

\* A variant of removeLoop that unlinks the next node when its key is >= k.
RECURSIVE removeLoopAtLeast(_, _, _, _, _, _)
removeLoopAtLeast(h, p, i, k, delNode, val) ==
    IF i < 0 THEN [h |-> h, delNode |-> delNode, value |-> val, ub |-> FALSE]
    ELSE LET f == removeFind(h, p, i, k)
             n == h.next[f.p][i]
             hit == n # NULL /\ comparator(h.key[n], k) >= 0
             bad == hit /\ ~ValidSlot(h, n, i)
             h2 == IF hit THEN [h EXCEPT !.next[f.p][i] = h.next[n][i]] ELSE h
             r == removeLoopAtLeast(h2, f.p, i - 1, k,
                                    IF hit THEN n ELSE delNode,
                                    IF hit THEN h.value[n] ELSE val)
         IN  [h |-> r.h, delNode |-> r.delNode, value |-> r.value,
              ub |-> f.ub \/ bad \/ r.ub]

\* The for loop of remove, from level i down to 0: at each level the next
\* node is unlinked when its key equals k, and becomes delNode.
RECURSIVE removeLoop(_, _, _, _, _, _)
removeLoop(h, p, i, k, delNode, val) ==
    IF i < 0 THEN [h |-> h, delNode |-> delNode, value |-> val, ub |-> FALSE]
    ELSE LET f == removeFind(h, p, i, k)
             n == h.next[f.p][i]
             hit == n # NULL /\ comparator(h.key[n], k) = 0
             bad == hit /\ ~ValidSlot(h, n, i)
             h2 == IF hit THEN [h EXCEPT !.next[f.p][i] = h.next[n][i]] ELSE h
             r == removeLoop(h2, f.p, i - 1, k,
                             IF hit THEN n ELSE delNode,
                             IF hit THEN h.value[n] ELSE val)
         IN  [h |-> r.h, delNode |-> r.delNode, value |-> r.value,
              ub |-> f.ub \/ bad \/ r.ub]

\* A variant of removeCall without the final delete.
removeCallNoDelete(h, ml, k) ==
    LET r == removeLoop(h, head_, ml - 1, k, NULL, RemoveDefault)
    IN  [h |-> r.h, maxLevel |-> ml, ret |-> r.value, ub |-> r.ub,
         freed |-> <<>>, level |-> 0]

\* A variant of removeCall whose loop runs at level 0 alone.
removeCallBottomOnly(h, ml, k) ==
    LET r == removeLoop(h, head_, IF ml > 0 THEN 0 ELSE -1, k, NULL,
                        RemoveDefault)
        twice == r.delNode # NULL /\ r.delNode \notin r.h.live
    IN  [h |-> deleteNode(r.h, r.delNode), maxLevel |-> ml, ret |-> r.value,
         ub |-> r.ub \/ twice,
         freed |-> IF r.delNode = NULL THEN <<>> ELSE <<r.delNode>>,
         level |-> 0]

\* remove(key)
removeCall(h, ml, k) ==
    LET r == removeLoop(h, head_, ml - 1, k, NULL, RemoveDefault)
        twice == r.delNode # NULL /\ r.delNode \notin r.h.live
    IN  [h |-> deleteNode(r.h, r.delNode), maxLevel |-> ml, ret |-> r.value,
         ub |-> r.ub \/ twice,
         freed |-> IF r.delNode = NULL THEN <<>> ELSE <<r.delNode>>,
         level |-> 0]

\* ------------------------------------------------------------------ clear
\* A variant of clearLevels whose loop stops one level early.
RECURSIVE clearLevelsShort(_, _, _)
clearLevelsShort(h, i, ml) ==
    IF i >= ml - 1 THEN [h |-> h, ub |-> FALSE]
    ELSE LET n == h.next[head_][i]
             bad == \/ ~ValidSlot(h, head_, i)
                    \/ n # NULL /\ ~ValidSlot(h, n, i)
             h2 == IF n # NULL
                   THEN [h EXCEPT !.next[head_][i] = h.next[n][i]]
                   ELSE h
             r == clearLevelsShort(h2, i + 1, ml)
         IN  [h |-> r.h, ub |-> bad \/ r.ub]

\* The for loop of one iteration of clear, from level i up to maxLevel_ - 1:
\* the head is advanced at every level whose link is not null.
RECURSIVE clearLevels(_, _, _)
clearLevels(h, i, ml) ==
    IF i >= ml THEN [h |-> h, ub |-> FALSE]
    ELSE LET n == h.next[head_][i]
             bad == \/ ~ValidSlot(h, head_, i)
                    \/ n # NULL /\ ~ValidSlot(h, n, i)
             h2 == IF n # NULL
                   THEN [h EXCEPT !.next[head_][i] = h.next[n][i]]
                   ELSE h
             r == clearLevels(h2, i + 1, ml)
         IN  [h |-> r.h, ub |-> bad \/ r.ub]

\* One iteration of the while loop of clear.
clearIter(h, ml) ==
    LET delNode == h.next[head_][0]
        r == clearLevels(h, 0, ml)
        twice == delNode \notin r.h.live
    IN  [h |-> deleteNode(r.h, delNode), maxLevel |-> ml, ret |-> 0,
         ub |-> r.ub \/ twice, freed |-> <<delNode>>, level |-> 0]

\* ---------------------------------------------------------------- actions
SetHeap(h) ==
    /\ key' = h.key
    /\ value' = h.value
    /\ height' = h.height
    /\ next' = h.next
    /\ live' = h.live

Call(op, k, v, r) ==
    [op |-> op, key |-> k, value |-> v, level |-> r.level, ret |-> r.ret]

\* The node store SkipList::SkipList() builds for _MAX_LEVEL = m: the head
\* alone, with m null links.
constructed(m) ==
    [key |-> [a \in Addrs |-> KeyMin],
     value |-> [a \in Addrs |-> ValMin],
     height |-> [a \in Addrs |-> IF a = head_ THEN m ELSE 0],
     next |-> [a \in Addrs |-> [i \in Levels |-> NULL]],
     live |-> {}]

NoCall ==
    [op |-> "construct", key |-> KeyMin, value |-> ValMin, level |-> 0, ret |-> 0]

\* The program has stopped: nothing of its memory is left to observe.
Crash ==
    /\ pc' = "crashed"
    /\ ub' = TRUE
    /\ SetHeap(constructed(tplMaxLevel))
    /\ maxLevel_' = 0
    /\ lastOp' = NoCall
    /\ freedLog' = <<>>
    /\ preLive' = {}
    /\ insOnly' = FALSE
    /\ inserted' = {}
    /\ insertsOnly' = FALSE
    /\ maxChosen' = 0
    /\ UNCHANGED tplMaxLevel

\* The end of a call whose result is r, with the bookkeeping g of the call.
\* A call that left the bounds of an array or touched a deleted node has
\* undefined behaviour: it either goes on with what the memory holds, or the
\* program stops.
Return(op, k, v, r, nextPc, g) ==
    \/ /\ SetHeap(r.h)
       /\ maxLevel_' = r.maxLevel
       /\ pc' = nextPc
       /\ ub' = (ub \/ r.ub)
       /\ lastOp' = Call(op, k, v, r)
       /\ freedLog' = g.freedLog
       /\ preLive' = g.preLive
       /\ insOnly' = g.insOnly
       /\ inserted' = g.inserted
       /\ insertsOnly' = g.insertsOnly
       /\ maxChosen' = (IF r.level > maxChosen THEN r.level ELSE maxChosen)
       /\ UNCHANGED tplMaxLevel
    \/ /\ r.ub
       /\ Crash

InsertedKeys ==
    {kv[1] : kv \in inserted}

Insert(k, v, rd) ==
    /\ pc = "idle"
    /\ \E node \in Nodes \ live :
           LET only == insOnly /\ k \notin InsertedKeys
           IN  Return("insert", k, v,
                      insertCall(Heap, maxLevel_, node, k, v, rd), "idle",
                      [freedLog |-> <<>>, preLive |-> {}, insOnly |-> only,
                       inserted |-> IF only THEN inserted \cup {<<k, v>>}
                                    ELSE {},
                       insertsOnly |-> insertsOnly])

Update(k, v) ==
    /\ pc = "idle"
    /\ Return("update", k, v, updateCall(Heap, maxLevel_, k, v), "idle",
              [freedLog |-> <<>>, preLive |-> {}, insOnly |-> FALSE,
               inserted |-> {}, insertsOnly |-> FALSE])

Remove(k) ==
    /\ pc = "idle"
    /\ LET r == removeCall(Heap, maxLevel_, k)
       IN  Return("remove", k, ValMin, r, "idle",
                  [freedLog |-> r.freed, preLive |-> {}, insOnly |-> FALSE,
                   inserted |-> {}, insertsOnly |-> FALSE])

Search(k) ==
    /\ pc = "idle"
    /\ Return("search", k, ValMin, searchCall(Heap, maxLevel_, k), "idle",
              [freedLog |-> <<>>, preLive |-> {}, insOnly |-> insOnly,
               inserted |-> inserted, insertsOnly |-> insertsOnly])

\* clear(): the call evaluates the loop condition; each step is either one
\* iteration of the while loop or, when head_->level[0].next is null, the
\* return.
Clear ==
    /\ pc \in {"idle", "clear"}
    /\ LET log == IF pc = "idle" THEN <<>> ELSE freedLog
           pre == IF pc = "idle" THEN live ELSE preLive
           bad == ~ValidSlot(Heap, head_, 0)
           none == [h |-> Heap, maxLevel |-> maxLevel_, ret |-> 0, ub |-> bad,
                    freed |-> <<>>, level |-> 0]
           r == clearIter(Heap, maxLevel_)
       IN  IF next[head_][0] = NULL
           THEN Return("clear", KeyMin, ValMin, none, "idle",
                       [freedLog |-> log, preLive |-> pre, insOnly |-> FALSE,
                        inserted |-> {}, insertsOnly |-> FALSE])
           ELSE Return("clear", KeyMin, ValMin, r, "clear",
                       [freedLog |-> log \o r.freed, preLive |-> pre,
                        insOnly |-> FALSE, inserted |-> {},
                        insertsOnly |-> FALSE])

\* The state after SkipList::SkipList() of the instantiation _MAX_LEVEL = m.
InitWith(m) ==
    /\ key = constructed(m).key
    /\ value = constructed(m).value
    /\ height = constructed(m).height
    /\ next = constructed(m).next
    /\ live = constructed(m).live
    /\ maxLevel_ = 0
    /\ tplMaxLevel = m
    /\ pc = "idle"
    /\ ub = FALSE
    /\ lastOp = NoCall
    /\ freedLog = <<>>
    /\ preLive = {}
    /\ insOnly = TRUE
    /\ inserted = {}
    /\ insertsOnly = TRUE
    /\ maxChosen = 0

\* The default instantiation: _MAX_LEVEL = MAX_LEVEL.
Init ==
    InitWith(MAX_LEVEL)

Next ==
    \/ \E k \in Keys, v \in Values, rd \in RandomWords : Insert(k, v, rd)
    \/ \E k \in Keys, v \in Values : Update(k, v)
    \/ \E k \in Keys : Remove(k)
    \/ \E k \in Keys : Search(k)
    \/ Clear

Spec ==
    Init /\ [][Next]_vars

\* An instantiation with _MAX_LEVEL below MAX_LEVEL.
InitSmall ==
    \E m \in 1..(MAX_LEVEL - 1) : InitWith(m)

SpecSmall ==
    InitSmall /\ [][Next]_vars

\* ------------------------------------------------------- derived notions
\* Whether some stored entry has key k.
StoredKey(k) ==
    \E n \in live : key[n] = k

\* The nodes of the level-i chain that starts after node p, in order.
RECURSIVE ChainFrom(_, _)
ChainFrom(p, i) ==
    IF next[p][i] = NULL THEN <<>>
    ELSE <<next[p][i]>> \o ChainFrom(next[p][i], i)

\* The nodes of the level-i chain that starts after node p in the links nxt.
RECURSIVE ChainOf(_, _, _)
ChainOf(nxt, p, i) ==
    IF nxt[p][i] = NULL THEN <<>>
    ELSE <<nxt[p][i]>> \o ChainOf(nxt, nxt[p][i], i)

\* The set of the elements of a sequence.
Range(c) ==
    {c[j] : j \in DOMAIN c}

\* The position of n in the sequence c, 0 when n is not in it.
Pos(c, n) ==
    IF n \in Range(c) THEN CHOOSE j \in DOMAIN c : c[j] = n ELSE 0

\* The sequence c without its elements equal to n.
Without(c, n) ==
    SelectSeq(c, LAMBDA x : x # n)

\* The node store of a freshly constructed container of this instantiation.
FreshHeap ==
    constructed(tplMaxLevel)

\* ------------------------------------------------------------------- C1
\* C1 (as claimed): in every reachable state, a search(K) issued right after
\* insert(K, V) returns V, also when K was already stored with other values.
C1_SearchAfterInsert ==
    (pc = "idle" /\ lastOp.op = "insert") =>
        searchCall(Heap, maxLevel_, lastOp.key).ret = lastOp.value

\* ------------------------------------------------------------------- C2
\* C2 (as claimed): in every reachable state, a remove(K) issued right after
\* insert(K, V) returns V and the search(K) after that remove reports absent,
\* also when K was already stored.
C2_RemoveAfterInsert ==
    (pc = "idle" /\ lastOp.op = "insert") =>
        LET r == removeCall(Heap, maxLevel_, lastOp.key)
        IN  /\ r.ret = lastOp.value
            /\ searchCall(r.h, r.maxLevel, lastOp.key).ret = ValMin

\* ------------------------------------------------------------------- C3
\* C3: in every reachable state right after insert(K, V1), for every V2,
\* update(K, V2) returns success (0) and the search(K) that follows returns
\* V2; K may be stored several times and may be the minimum key.
C3_UpdateAfterInsert ==
    (pc = "idle" /\ lastOp.op = "insert") =>
        \A v2 \in Values :
            LET u == updateCall(Heap, maxLevel_, lastOp.key, v2)
            IN  /\ u.ret = 0
                /\ ~u.ub
                /\ searchCall(u.h, u.maxLevel, lastOp.key).ret = v2

\* C3 witness: an insert of the minimum key that is now stored three times.
C3_Witness ==
    /\ pc = "idle"
    /\ lastOp.op = "insert"
    /\ lastOp.key = KeyMin
    /\ Cardinality({n \in live : key[n] = KeyMin}) >= 3

\* ------------------------------------------------------------------- C4
\* C4 (as claimed): an update(K, V) for a key K that no stored entry has,
\* the minimum key included, returns 1 and leaves every value (the head's
\* too) and every link unchanged.
C4_UpdateAbsent ==
    [][(lastOp'.op = "update" /\ ~StoredKey(lastOp'.key)) =>
          /\ lastOp'.ret = 1
          /\ UNCHANGED <<key, value, height, next, live>>]_vars

\* ------------------------------------------------------------------- C5
\* C5 (as claimed): search(K) reports the not-found outcome if and only if
\* no stored entry has key K, whatever value is stored, the minimum included.
C5_SearchNotFoundIff ==
    (pc = "idle" /\ lastOp.op = "search") =>
        (lastOp.ret = ValMin <=> ~StoredKey(lastOp.key))

\* ------------------------------------------------------------------- C6
\* C6 (as claimed): with _MAX_LEVEL = M, every insert picks a height in
\* [1, M], the tracked maximum level never exceeds M, and no operation reads
\* or writes a link of the head at an index >= M.
C6_LevelWithinTemplate ==
    /\ lastOp.op = "insert" => lastOp.level \in 1..tplMaxLevel
    /\ maxLevel_ <= tplMaxLevel
    /\ ~ub

\* ------------------------------------------------------------------- C7
\* C7 (as claimed): after clear() every call returns what it returns on a
\* freshly constructed container, and leaves the container in a state where
\* this holds again; in particular every search right after clear() reports
\* absent.
C7_ClearLikeFresh ==
    (pc = "idle" /\ lastOp.op = "clear") =>
        \A k \in Keys :
            /\ searchCall(Heap, maxLevel_, k).ret = searchCall(FreshHeap, 0, k).ret
            /\ removeCall(Heap, maxLevel_, k).ret = removeCall(FreshHeap, 0, k).ret
            /\ \A v \in Values :
                   /\ updateCall(Heap, maxLevel_, k, v).ret
                          = updateCall(FreshHeap, 0, k, v).ret
                   /\ \A rd \in RandomWords, node \in Nodes \ live, k2 \in Keys :
                          LET a == insertCall(Heap, maxLevel_, node, k, v, rd)
                              b == insertCall(FreshHeap, 0, node, k, v, rd)
                          IN  /\ a.ret = b.ret
                              /\ searchCall(a.h, a.maxLevel, k2).ret
                                     = searchCall(b.h, b.maxLevel, k2).ret

\* ------------------------------------------------------------------- C8
\* C8, the state a finished clear() leaves: every forward link of the head
\* is null at every level, and every node stored when clear() was called has
\* been deleted exactly once, without touching a deleted node.
C8_Cleared ==
    (pc = "idle" /\ lastOp.op = "clear") =>
        /\ \A i \in Levels : next[head_][i] = NULL
        /\ live = {}
        /\ ~ub
        /\ Len(freedLog) = Cardinality(preLive)
        /\ {freedLog[j] : j \in DOMAIN freedLog} = preLive

\* C8, the steps of clear(): every iteration deletes a stored node, so the
\* loop ends; and a clear() called right after a finished clear() returns at
\* once and changes no node, no link and no level.
C8_ClearStep ==
    /\ pc' = "clear" => Cardinality(live') < Cardinality(live)
    /\ (pc = "idle" /\ lastOp.op = "clear" /\ lastOp'.op = "clear") =>
           /\ pc' = "idle"
           /\ freedLog' = <<>>
           /\ UNCHANGED <<key, value, height, next, live, maxLevel_>>

\* C8: clear() called in any reachable state ends with every head link null
\* and every stored node freed exactly once; a second clear() right after
\* changes nothing.
C8_ClearEmpties ==
    []C8_Cleared /\ [][C8_ClearStep]_vars

\* C8 witness: a finished clear() that took three iterations.
C8_Witness ==
    /\ pc = "idle"
    /\ lastOp.op = "clear"
    /\ Len(freedLog) = 3
    /\ \A i \in Levels : next[head_][i] = NULL

\* ------------------------------------------------------------------- C9
\* C9: a remove(K) for a key K that no stored entry has returns the
\* not-found value, frees no node and leaves every link, every value and the
\* tracked maximum level unchanged.
C9_RemoveAbsent ==
    [][(lastOp'.op = "remove" /\ ~StoredKey(lastOp'.key)) =>
          /\ lastOp'.ret = RemoveDefault
          /\ freedLog' = <<>>
          /\ pc' = "idle"
          /\ UNCHANGED <<key, value, height, next, live, maxLevel_>>]_vars

\* C9 witness: a remove of an absent key from a container that holds
\* entries on two levels.
C9_Witness ==
    /\ pc = "idle"
    /\ lastOp.op = "remove"
    /\ ~StoredKey(lastOp.key)
    /\ lastOp.ret = RemoveDefault
    /\ next[head_][1] # NULL
    /\ \E n \in live : key[n] > lastOp.key

\* ------------------------------------------------------------------ C10
\* C10: after inserts of pairwise distinct keys only, with any heights, the
\* level-0 chain holds exactly the inserted entries, each once, in strictly
\* increasing key order.
C10_SortedAfterInserts ==
    (pc = "idle" /\ insOnly) =>
        LET c == ChainFrom(head_, 0)
        IN  /\ \A j \in 1..(Len(c) - 1) : key[c[j]] < key[c[j + 1]]
            /\ Len(c) = Cardinality(inserted)
            /\ {<<key[c[j]], value[c[j]]>> : j \in DOMAIN c} = inserted

\* C10 witness: the larger key was inserted first, the smaller one second
\* and with another height.
C10_Witness ==
    /\ pc = "idle"
    /\ insOnly
    /\ lastOp.op = "insert"
    /\ Cardinality(inserted) >= 2
    /\ \E n \in live : key[n] > lastOp.key /\ height[n] # lastOp.level

\* ------------------------------------------------------------------ C11
\* C11, the order: while only inserts have run, entries of the level-0 chain
\* that share a key are in non-decreasing value order.
C11_DuplicatesByValue ==
    (pc = "idle" /\ insertsOnly) =>
        LET c == ChainFrom(head_, 0)
        IN  \A j \in 1..(Len(c) - 1) :
                key[c[j]] = key[c[j + 1]] => value[c[j]] <= value[c[j + 1]]

\* C11, the step: an insert returns 0, adds exactly one node holding the
\* given pair to the store and to the level-0 chain, and changes the key and
\* value of no stored node, whatever is already stored.
C11_InsertAdds ==
    lastOp'.op = "insert" =>
        /\ lastOp'.ret = 0
        /\ pc' = "idle"
        /\ \E n \in Nodes \ live :
               /\ live' = live \cup {n}
               /\ key'[n] = lastOp'.key
               /\ value'[n] = lastOp'.value
               /\ Range(ChainOf(next', head_, 0))
                      = Range(ChainOf(next, head_, 0)) \cup {n}
        /\ Len(ChainOf(next', head_, 0)) = Len(ChainOf(next, head_, 0)) + 1
        /\ \A m \in live : key'[m] = key[m] /\ value'[m] = value[m]

\* C11: every insert(K, V) returns 0 and adds exactly one node, never
\* replacing or rejecting, also when K or the pair (K, V) is already stored;
\* after inserts only, entries sharing a key are in non-decreasing value
\* order in the level-0 chain.
C11_RetainDuplicates ==
    []C11_DuplicatesByValue /\ [][C11_InsertAdds]_vars

\* C11 witness: after inserts only, an insert of a pair that is now stored
\* twice, next to an entry of the same key with another value.
C11_Witness ==
    /\ pc = "idle"
    /\ insertsOnly
    /\ lastOp.op = "insert"
    /\ Cardinality({n \in live : key[n] = lastOp.key
                                 /\ value[n] = lastOp.value}) = 2
    /\ \E n \in live : key[n] = lastOp.key /\ value[n] # lastOp.value

\* ------------------------------------------------------------------ C12
\* C12 (as claimed): in every reachable state, at every level, the chain
\* from the head is strictly increasing in the (key, value) order of insert:
\* no two adjacent nodes are equal or out of order.
C12_StrictlyOrdered ==
    pc = "idle" =>
        \A i \in Levels :
            LET c == ChainFrom(head_, i)
            IN  \A j \in 1..(Len(c) - 1) :
                    \/ key[c[j]] < key[c[j + 1]]
                    \/ /\ key[c[j]] = key[c[j + 1]]
                       /\ value[c[j]] < value[c[j + 1]]

\* ------------------------------------------------------------------ C13
\* Whether the sequence c lists some of the elements of d, in d's order.
IsSubsequence(c, d) ==
    /\ \A j \in DOMAIN c : c[j] \in Range(d)
    /\ \A j, j2 \in DOMAIN c : j < j2 => Pos(d, c[j]) < Pos(d, c[j2])

\* C13: in every reachable state, the steps inside clear() included, a node
\* linked into the level-i chain is linked into every chain below, and each
\* chain lists its nodes in the order of the chain below it.
C13_LevelsNested ==
    \A i \in Levels :
        i > 0 => IsSubsequence(ChainFrom(head_, i), ChainFrom(head_, i - 1))

\* C13 witness: after a remove on a duplicate key, a node of height 2 is
\* linked at level 0 alone while another node is linked at level 1.
C13_Witness ==
    /\ pc = "idle"
    /\ lastOp.op = "remove"
    /\ ChainFrom(head_, 1) # <<>>
    /\ \E n \in live : height[n] = 2 /\ n \notin Range(ChainFrom(head_, 1))

\* ------------------------------------------------------------------ C14
\* C14 (as claimed): in every reachable state the level-0 chain holds all
\* stored pairs in sorted order, key first and value second; update never
\* leaves two entries of one key out of value order.
C14_BottomSorted ==
    pc = "idle" =>
        LET c == ChainFrom(head_, 0)
        IN  /\ Range(c) = live
            /\ \A j \in 1..(Len(c) - 1) :
                   \/ key[c[j]] < key[c[j + 1]]
                   \/ /\ key[c[j]] = key[c[j + 1]]
                      /\ value[c[j]] <= value[c[j + 1]]

\* ------------------------------------------------------------------ C15
\* No two stored nodes share a key.
DistinctKeys ==
    \A m, n \in live : m # n => key[m] # key[n]

\* C15, for the removed node n: the step unlinks n from every level (every
\* chain is the old one without n, the node that pointed to n in a chain now
\* points to n's old successor), frees n once, returns n's value and leaves
\* every other link, key, value and height, and the tracked maximum level,
\* unchanged.
C15_Unlinks(n) ==
    /\ pc' = "idle"
    /\ lastOp'.ret = value[n]
    /\ freedLog' = <<n>>
    /\ live' = live \ {n}
    /\ maxLevel_' = maxLevel_
    /\ \A i \in Levels :
           /\ ChainOf(next', head_, i) = Without(ChainOf(next, head_, i), n)
           /\ \A m \in (live \ {n}) \cup {head_} :
                  next'[m][i] =
                      IF /\ next[m][i] = n
                         /\ m = head_ \/ m \in Range(ChainOf(next, head_, i))
                      THEN next[n][i]
                      ELSE next[m][i]
    /\ \A m \in (live \ {n}) \cup {head_} :
           key'[m] = key[m] /\ value'[m] = value[m] /\ height'[m] = height[m]

\* C15: when no two stored nodes share a key and node N has key K, remove(K)
\* unlinks exactly N from every level, frees N once, returns N's value and
\* changes nothing else.
C15_RemoveUnique ==
    [][(lastOp'.op = "remove" /\ DistinctKeys /\ StoredKey(lastOp'.key)) =>
          C15_Unlinks(CHOOSE n \in live : key[n] = lastOp'.key)]_vars

\* C15 witness: a remove that freed one node and left one node, of a smaller
\* key and of height 2, whose links are now null.
C15_Witness ==
    /\ pc = "idle"
    /\ lastOp.op = "remove"
    /\ Len(freedLog) = 1
    /\ \E m \in live :
           /\ live = {m}
           /\ key[m] < lastOp.key
           /\ height[m] = 2
           /\ next[head_][1] = m
           /\ next[m][0] = NULL

\* ------------------------------------------------------------------ C16
\* Node n is stored and is missing from the chain of a level below its
\* height, in the links nxt.
Underlinked(nxt, liv, ht, n) ==
    /\ n \in liv
    /\ \E i \in Levels : i < ht[n] /\ n \notin Range(ChainOf(nxt, head_, i))

\* C16, the step: outside clear(), a stored node comes to be linked at fewer
\* levels than its height only by a remove(K) of its own key K that frees
\* another node of key K, the first one of the level-0 chain, and unlinks
\* this one at a level above 0 while it stays in the level-0 chain.
C16_UnlinksOther(n) ==
    (/\ pc' = "idle"
     /\ lastOp'.op # "clear"
     /\ Underlinked(next', live', height', n)
     /\ ~Underlinked(next, live, height, n)) =>
        /\ lastOp'.op = "remove"
        /\ n \in live
        /\ key[n] = lastOp'.key
        /\ Len(freedLog') = 1
        /\ freedLog'[1] # n
        /\ key[freedLog'[1]] = lastOp'.key
        /\ Pos(ChainOf(next, head_, 0), freedLog'[1])
               < Pos(ChainOf(next, head_, 0), n)
        /\ n \in Range(ChainOf(next', head_, 0))
        /\ \E i \in Levels :
               /\ i > 0
               /\ n \in Range(ChainOf(next, head_, i))
               /\ n \notin Range(ChainOf(next', head_, i))

\* C16: with two or more nodes of key K stored, remove(K) can unlink above
\* level 0 a node other than the one it frees, leaving a stored node linked
\* at fewer levels than its height (the state C16_Witness); no other call
\* does that.
C16_RemoveCorrupts ==
    [][\A n \in Nodes : C16_UnlinksOther(n)]_vars

\* C16 witness: after remove(K), a surviving node of key K is linked at
\* fewer levels than its height.
C16_Witness ==
    /\ pc = "idle"
    /\ lastOp.op = "remove"
    /\ \E n \in live :
           /\ key[n] = lastOp.key
           /\ Underlinked(next, live, height, n)

\* ------------------------------------------------------------------ C17
\* The node an insert step has added.
NewNode ==
    CHOOSE n \in Nodes : n \in live' /\ n \notin live

\* C17 (as claimed): after any sequence of inserts, insert(K, V) places the
\* new node in the level-0 chain after every existing entry of key K and
\* value <= V and before every entry of key K and value > V.
C17_AfterEqualValues ==
    [][(lastOp'.op = "insert" /\ insertsOnly') =>
          LET c == ChainOf(next', head_, 0)
          IN  \A m \in live :
                  key[m] = lastOp'.key =>
                      /\ value[m] <= lastOp'.value =>
                             Pos(c, m) < Pos(c, NewNode)
                      /\ value[m] > lastOp'.value =>
                             Pos(c, NewNode) < Pos(c, m)]_vars

\* C17 (amended): after any sequence of inserts, insert(K, V) places the new
\* node in the level-0 chain after every existing entry of key K and value
\* < V and before every entry of key K and value >= V, entries with value
\* equal to V included.
C17_BeforeEqualValues ==
    [][(lastOp'.op = "insert" /\ insertsOnly') =>
          LET c == ChainOf(next', head_, 0)
          IN  /\ NewNode \in Range(c)
              /\ \A m \in live :
                     key[m] = lastOp'.key =>
                         /\ m \in Range(c)
                         /\ value[m] < lastOp'.value =>
                                Pos(c, m) < Pos(c, NewNode)
                         /\ value[m] >= lastOp'.value =>
                                Pos(c, NewNode) < Pos(c, m)]_vars

\* C17 witness: after inserts only, an insert(K, V) with an entry of key K
\* and a smaller value before, and an entry of the same pair after, one of
\* the two nodes that now hold (K, V).
C17_Witness ==
    /\ pc = "idle"
    /\ insertsOnly
    /\ lastOp.op = "insert"
    /\ LET c == ChainFrom(head_, 0)
       IN  /\ Len(c) = 3
           /\ \A j \in 1..3 : key[c[j]] = lastOp.key
           /\ value[c[1]] < lastOp.value
           /\ value[c[2]] = lastOp.value
           /\ value[c[3]] = lastOp.value

\* ------------------------------------------------------------------ C18
\* C18 (as claimed): each iteration of clear() frees exactly one node, the
\* head's level-0 successor, and advances the head's link at a tracked
\* level exactly when that link points to the node being freed; the head's
\* links to other nodes are unchanged by the iteration.
C18_ClearAdvancesFreed ==
    [][(lastOp'.op = "clear" /\ pc' = "clear") =>
          LET delNode == next[head_][0]
          IN  /\ freedLog' = (IF pc = "idle" THEN <<>> ELSE freedLog)
                                 \o <<delNode>>
              /\ live' = live \ {delNode}
              /\ \A i \in Levels :
                     i < maxLevel_ =>
                         next'[head_][i] =
                             IF next[head_][i] = delNode
                             THEN next[delNode][i]
                             ELSE next[head_][i]]_vars

\* C18 (amended): each iteration of clear() frees exactly one node, the
\* head's level-0 successor, and advances the head's link by one node at
\* every tracked level where that link is not null, whether or not it points
\* to the node being freed; null head links and the links of untracked
\* levels are unchanged.
C18_ClearAdvancesAll ==
    [][(lastOp'.op = "clear" /\ pc' = "clear") =>
          LET delNode == next[head_][0]
          IN  /\ freedLog' = (IF pc = "idle" THEN <<>> ELSE freedLog)
                                 \o <<delNode>>
              /\ live' = live \ {delNode}
              /\ \A i \in Levels :
                     next'[head_][i] =
                         IF i < maxLevel_ /\ next[head_][i] # NULL
                         THEN next[next[head_][i]][i]
                         ELSE next[head_][i]]_vars

\* C18 witness: after the first iteration of a clear() of three nodes, the
\* head's level-1 link is already past the stored node of height 2 that is
\* the head's level-0 successor.
C18_Witness ==
    /\ pc = "clear"
    /\ Len(freedLog) = 1
    /\ Cardinality(live) = 2
    /\ LET b == next[head_][0]
       IN  /\ b \in live
           /\ height[b] = 2
           /\ next[b][1] \in live
           /\ next[head_][1] = next[b][1]
           /\ key[b] < key[next[b][1]]

\* ------------------------------------------------------------------ C19
\* C19, the state: the tracked maximum level is the largest height an insert
\* has chosen since construction, 0 before the first insert.
C19_IsMaxChosen ==
    pc # "crashed" => maxLevel_ = maxChosen

\* C19, the step: the tracked maximum level never decreases, an insert
\* raises it to the chosen height when that is larger, and remove, update,
\* search and clear leave it unchanged.
C19_Step ==
    pc' # "crashed" =>
        /\ maxLevel_' >= maxLevel_
        /\ lastOp'.op = "insert" =>
               maxLevel_' = (IF lastOp'.level > maxLevel_
                             THEN lastOp'.level ELSE maxLevel_)
        /\ lastOp'.op # "insert" => maxLevel_' = maxLevel_

\* C19: the tracked maximum level never decreases; remove, update, search
\* and clear leave it unchanged, and after every insert it is the largest
\* height chosen by an insert since construction, also when every node of
\* that height has been removed.
C19_MaxLevelMonotone ==
    []C19_IsMaxChosen /\ [][C19_Step]_vars

\* C19 witness: after a remove, nodes are stored, none of them of the
\* tracked maximum level 2.
C19_Witness ==
    /\ pc = "idle"
    /\ lastOp.op = "remove"
    /\ maxLevel_ = 2
    /\ live # {}
    /\ \A n \in live : height[n] = 1

\* ------------------------------------------------------------------ C20
\* C20: in every state, the states between the iterations of clear()
\* included, no call has read or freed a freed node, every node in a chain
\* from the head is allocated and not freed, and the allocated nodes are
\* exactly the nodes of the level-0 chain.
C20_MemorySafe ==
    /\ ~ub
    /\ pc # "crashed"
    /\ \A i \in Levels : Range(ChainFrom(head_, i)) \subseteq live
    /\ Range(ChainFrom(head_, 0)) = live
    /\ Len(ChainFrom(head_, 0)) = Cardinality(live)
    /\ \A j, j2 \in DOMAIN freedLog : j # j2 => freedLog[j] # freedLog[j2]
    /\ \A j \in DOMAIN freedLog : freedLog[j] \notin live

\* C20 witness: between two iterations of clear(), a stored node that a
\* remove of a duplicate key took out of level 1 still holds a level-1 link
\* to a freed node; no chain from the head leads through that link.
C20_Witness ==
    /\ pc = "clear"
    /\ \E n \in live :
           /\ next[n][1] # NULL
           /\ next[n][1] \notin live

====
